---- MODULE Spec2Model ----
(***************************************************************************)
(* Model of the VDOT interpolation and phase-planning engine of the        *)
(* AI marathon coach (src/src/vdot/*.py, src/src/config.py).               *)
(*                                                                         *)
(* Numbers.  Scores (VDOT) handed to a function are held in thousandths    *)
(* ("milli": 50.123 is 50123); scores a function returns after             *)
(* round(x, 2) are held in hundredths ("centi": 50.12 is 5012).  Every     *)
(* intermediate float is held as an exact fraction num/den.  A value that  *)
(* lies exactly half way between two hundredths is rounded by Python       *)
(* according to the binary value of the float that carries it, which the   *)
(* exact fraction does not determine: such a tie is rounded either way.    *)
(***************************************************************************)
EXTENDS Integers, Sequences, FiniteSets, TLC

VARIABLES
    pc,             \* the operation that ran last ("init" before any)
    current_vdot,   \* calculate_phase_vdots: argument, milli
    target_vdot,    \* calculate_phase_vdots: argument, milli
    num_phases,     \* calculate_phase_vdots: argument
    phase_vdots,    \* calculate_phase_vdots: returned list, centi
    race_date,      \* get_training_start_date: argument, a datetime
    today,          \* get_training_start_date: datetime.now() at the call
    min_weeks,      \* get_training_start_date: argument, << >> is None
    start_date,     \* get_training_start_date: returned datetime
    time_str,       \* time_to_seconds: argument, a sequence of characters
    seconds,        \* time_to_seconds: returned value, << >> is None
    raised,         \* the codec call ended with an exception
    duration,       \* seconds_to_time: argument, << >> is None, <<num, den>>
                    \*   is the number num / den
    with_hours,     \* seconds_to_time: argument include_hours
    df_vdot,        \* the fitness-vs-time table: a sequence of rows
    distance,       \* calculate_vdot_from_time: argument
    calls,          \* calculate_vdot_from_time: the calls made so far, each
                    \*   with its time_seconds argument and its result
    vdot,           \* calculate_marathon_time_from_vdot: argument, milli
    marathon_time,  \* calculate_marathon_time_from_vdot: returned text
    df_pace,        \* the fitness-vs-pace table: a sequence of rows
    pace_vdot,      \* calculate_training_paces: argument vdot, milli
    pace_result,    \* calculate_training_paces: returned dict
    training_weeks, \* get_max_vdot_diff: argument
    max_vdot_diff,  \* get_max_vdot_diff: returned value, in tenths
    min_requirements,    \* get_min_requirements: returned tuple
    weekly_distance,     \* validate_training_conditions: argument
    training_days,       \* validate_training_conditions: argument
    point_training_days, \* validate_training_conditions: argument
    validation,     \* validate_training_conditions: returned dict
    prompt_phases,  \* create_training_prompt: the rows of the phase table
    table_phases    \* render_phase_table: the rows of the phase table

phaseVars == <<current_vdot, target_vdot, num_phases, phase_vdots>>
scheduleVars == <<race_date, today, min_weeks, start_date>>
codecVars == <<time_str, seconds, raised, duration, with_hours>>
vdotVars == <<df_vdot, distance, calls, vdot, marathon_time>>
paceVars == <<df_pace, pace_vdot, pace_result>>
configVars ==
    <<training_weeks, max_vdot_diff, min_requirements, weekly_distance,
      training_days, point_training_days, validation>>
planVars == <<prompt_phases, table_phases>>
vars ==
    <<pc, phaseVars, scheduleVars, codecVars, vdotVars, paceVars, configVars,
      planVars>>

(***************************************************************************)
(* Bounds of the model.                                                    *)
(***************************************************************************)
MaxScoreSpan == 24
MaxPhases == 4
SlotsPerDay == 2
MaxWeeksAhead == 14
MaxMinWeeks == 3
MaxTextLen == 7
MaxRows == 3
QueryMargin == 3
MaxSeconds == 130
MaxTenths == 1210
MaxPaceRows == 3
MaxPaceFrac == 4
MaxCycleWeeks == 80
MaxTrainingDays == 7
MaxPointDays == 4

(***************************************************************************)
(* Arithmetic helpers.                                                     *)
(***************************************************************************)
Abs(x) == IF x < 0 THEN -x ELSE x

\* floor(num / den) for den > 0, whatever the sign of num
FloorDiv(num, den) == IF num >= 0 THEN num \div den
                      ELSE -(((-num) + den - 1) \div den)

\* Python a % b for b > 0: the result is never negative
Mod(num, den) == num - den * FloorDiv(num, den)

\* Python round(): nearest integer to num/den (den > 0); an exact tie goes up
\* when tieUp and down otherwise.
RoundTruncates(num, den, tieUp) == FloorDiv(num, den)
Round(num, den, tieUp) ==
    LET q == FloorDiv(num, den)
        r == num - q * den
    IN  IF 2 * r < den THEN q
        ELSE IF 2 * r > den THEN q + 1
        ELSE IF tieUp THEN q + 1 ELSE q

(***************************************************************************)
(* paces.py: calculate_phase_vdots(current_vdot, target_vdot, num_phases). *)
(* cur and tgt are in milli, the returned list is in centi.  ups is the    *)
(* set of list positions (0-based) whose rounding tie goes up.             *)
(***************************************************************************)
\* variant: the step divides the difference by num_phases instead of
\* num_phases - 1, so the last phase stops short of the target
calculate_phase_vdots_step_over_n(cur, tgt, n, ups) ==
    LET vdot_diff == tgt - cur
        stepNum == vdot_diff
        stepDen == IF n > 1 THEN n ELSE 1
        tie(i) == IF vdot_diff = 0 THEN 0 \in ups ELSE i \in ups
        elem(i) == IF i = 0
                   THEN Round(cur, 10, tie(0))
                   ELSE Round(cur * stepDen + stepNum * i, 10 * stepDen, tie(i))
    IN  IF n <= 0 THEN << >> ELSE [k \in 1..n |-> elem(k - 1)]

\* variant: phase 1 is already one step above the current score, so a single
\* phase returns the target
calculate_phase_vdots_first_stepped(cur, tgt, n, ups) ==
    LET vdot_diff == tgt - cur
        stepNum == vdot_diff
        stepDen == IF n > 1 THEN n - 1 ELSE 1
        tie(i) == IF vdot_diff = 0 THEN 0 \in ups ELSE i \in ups
        elem(i) == Round(cur * stepDen + stepNum * (i + 1), 10 * stepDen, tie(i))
    IN  IF n <= 0 THEN << >> ELSE [k \in 1..n |-> elem(k - 1)]

calculate_phase_vdots(cur, tgt, n, ups) ==
    LET vdot_diff == tgt - cur
        \* step = vdot_diff / (num_phases - 1) if num_phases > 1 else vdot_diff
        stepNum == vdot_diff
        stepDen == IF n > 1 THEN n - 1 ELSE 1
        \* equal floats round alike: with a zero difference every element is
        \* the same float as element 0
        tie(i) == IF vdot_diff = 0 THEN 0 \in ups ELSE i \in ups
        \* round(current_vdot + step * i, 2): milli -> centi divides by 10
        elem(i) == IF i = 0
                   THEN Round(cur, 10, tie(0))
                   ELSE Round(cur * stepDen + stepNum * i, 10 * stepDen, tie(i))
    IN  \* for i in range(num_phases): an empty range when num_phases <= 0
        IF n <= 0 THEN << >> ELSE [k \in 1..n |-> elem(k - 1)]

(***************************************************************************)
(* Each specification studies one operation; the variables of the other    *)
(* operations keep these values.                                           *)
(***************************************************************************)
IdlePhase ==
    /\ current_vdot = 0 /\ target_vdot = 0 /\ num_phases = 0
    /\ phase_vdots = << >>

IdleSchedule ==
    /\ race_date = 0 /\ today = 0 /\ min_weeks = << >> /\ start_date = 0

IdleFormat == duration = << >> /\ with_hours = FALSE

IdleCodec == time_str = << >> /\ seconds = << >> /\ raised = FALSE /\ IdleFormat

IdleVdot ==
    /\ df_vdot = << >> /\ distance = "" /\ calls = << >>
    /\ vdot = 0 /\ marathon_time = << >>

IdlePaces == df_pace = << >> /\ pace_vdot = 0 /\ pace_result = << >>

IdlePlan == prompt_phases = << >> /\ table_phases = << >>

IdleValidation ==
    /\ weekly_distance = << >>
    /\ training_days = << >>
    /\ point_training_days = << >>
    /\ validation = << >>

IdleConfig ==
    /\ training_weeks = 0 /\ max_vdot_diff = 0
    /\ min_requirements = << >>
    /\ IdleValidation

(***************************************************************************)
(* calculator.py: the time codec.  A text is a sequence of characters;     *)
(* each character is a one-character string, except the full-width colon   *)
(* (U+FF1A), which is written "U+FF1A".  None is the empty sequence << >>  *)
(* and an integer result n is <<n>>.                                       *)
(***************************************************************************)
Digits == <<"0", "1", "2", "3", "4", "5", "6", "7", "8", "9">>
DigitSet == {Digits[i] : i \in 1..10}
DigitVal(c) == (CHOOSE i \in 1..10 : Digits[i] = c) - 1
FullWidthColon == "U+FF1A"

\* value of a non-empty run of decimal digits
RECURSIVE DecVal(_)
DecVal(t) == IF t = << >> THEN 0
             ELSE 10 * DecVal(SubSeq(t, 1, Len(t) - 1)) + DigitVal(t[Len(t)])

\* str.strip(): leading and trailing white space removed
RECURSIVE Strip(_)
Strip(t) == IF t = << >> THEN t
            ELSE IF t[1] = " " THEN Strip(Tail(t))
            ELSE IF t[Len(t)] = " " THEN Strip(SubSeq(t, 1, Len(t) - 1))
            ELSE t

\* str.replace(full-width colon, ":")
ReplaceColon(t) == [i \in 1..Len(t) |-> IF t[i] = FullWidthColon THEN ":" ELSE t[i]]

\* str.split(":"): the list of the parts between the colons, never empty
RECURSIVE Split(_)
Split(t) ==
    IF \A i \in 1..Len(t) : t[i] # ":" THEN <<t>>
    ELSE LET i == CHOOSE k \in 1..Len(t) :
                     t[k] = ":" /\ \A j \in 1..(k - 1) : t[j] # ":"
         IN  <<SubSeq(t, 1, i - 1)>> \o Split(SubSeq(t, i + 1, Len(t)))

\* int(p) succeeds: optional white space around an optional sign and a
\* non-empty run of digits, which may have
\* single underscores between digits
IntOk(p) ==
    LET t == Strip(p)
        b == IF t # << >> /\ t[1] \in {"+", "-"} THEN Tail(t) ELSE t
    IN  /\ b # << >>
        /\ \A i \in 1..Len(b) : b[i] \in DigitSet \cup {"_"}
        /\ b[1] # "_" /\ b[Len(b)] # "_"
        /\ \A i \in 1..(Len(b) - 1) : ~(b[i] = "_" /\ b[i + 1] = "_")

NoUnderscore(t) == SelectSeq(t, LAMBDA c : c # "_")

\* int(p) when it succeeds
IntVal(p) ==
    LET t == Strip(p)
    IN  IF t[1] = "-" THEN -DecVal(NoUnderscore(Tail(t)))
        ELSE IF t[1] = "+" THEN DecVal(NoUnderscore(Tail(t)))
        ELSE DecVal(NoUnderscore(t))

\* variant: the full-width colon is not replaced before the split
time_to_seconds_ascii_only(text) ==
    IF text = << >> THEN << >>
    ELSE LET parts == Split(Strip(text))
         IN  IF \E i \in 1..Len(parts) : ~IntOk(parts[i]) THEN << >>
             ELSE IF Len(parts) = 3
                  THEN <<IntVal(parts[1]) * 3600 + IntVal(parts[2]) * 60 + IntVal(parts[3])>>
             ELSE IF Len(parts) = 2
                  THEN <<IntVal(parts[1]) * 60 + IntVal(parts[2])>>
             ELSE IF Len(parts) = 1 THEN <<IntVal(parts[1])>>
             ELSE << >>

time_to_seconds(text) ==
    \* if not time_str: return None
    IF text = << >> THEN << >>
    ELSE LET parts == Split(ReplaceColon(Strip(text)))
         IN  \* int(p) raises ValueError, caught: return None
             IF \E i \in 1..Len(parts) : ~IntOk(parts[i]) THEN << >>
             ELSE IF Len(parts) = 3
                  THEN <<IntVal(parts[1]) * 3600 + IntVal(parts[2]) * 60 + IntVal(parts[3])>>
             ELSE IF Len(parts) = 2
                  THEN <<IntVal(parts[1]) * 60 + IntVal(parts[2])>>
             ELSE IF Len(parts) = 1 THEN <<IntVal(parts[1])>>
             ELSE << >>

\* app.py: time_to_seconds of the application script.  The conversions of
\* the branches for one and two colons are outside the try block: a part
\* that int() rejects ends the call with ValueError.  The full-width colon is
\* not replaced.  The last branch is int(float(text)); for a text without a
\* decimal point, an exponent or a letter of "inf" and "nan", float accepts
\* what int accepts.
CountColons(t) == Cardinality({i \in 1..Len(t) : t[i] = ":"})

AppParts(parts) ==
    IF \E i \in 1..Len(parts) : ~IntOk(parts[i])
    THEN [value |-> << >>, raised |-> TRUE]
    ELSE IF Len(parts) = 3
    THEN [value |-> <<IntVal(parts[1]) * 3600 + IntVal(parts[2]) * 60 + IntVal(parts[3])>>,
          raised |-> FALSE]
    ELSE [value |-> <<IntVal(parts[1]) * 60 + IntVal(parts[2])>>, raised |-> FALSE]

AppStripped(t) ==
    IF CountColons(t) \in {1, 2} THEN AppParts(Split(t))
    ELSE IF IntOk(t) THEN [value |-> <<IntVal(t)>>, raised |-> FALSE]
    ELSE [value |-> << >>, raised |-> FALSE]

app_time_to_seconds(text) ==
    \* pd.isna(None); "" falls through to the last branch and is rejected there
    IF text = << >> THEN [value |-> << >>, raised |-> FALSE]
    ELSE AppStripped(Strip(text))

\* the texts tried: every text up to MaxTextLen over a small alphabet, and a
\* few with white space and other digits
CodecAlphabet == {"0", "5", ":", FullWidthColon, "x"}
CodecTexts ==
    UNION {[1..n -> CodecAlphabet] : n \in 0..MaxTextLen}
    \cup { <<" ", "5", ":", "3", "0", " ">>,
           <<"5", " ", ":", " ", "3", "0">>,
           <<"3", ":", "3", "0", ":", "0", "0">>,
           <<"3", FullWidthColon, "3", "0", FullWidthColon, "0", "0">>,
           <<"2", ":", "5", "9", ":", "5", "9">>,
           <<"2", "5", ":", "0", "0">>,
           <<"1", "2", "6", "0", "0">>,
           <<"-", "5">>, <<"+", "5", ":", "0", "0">>, <<"5", "-">>,
           <<"5", "_", "0">>, <<"_", "5">>, <<"5", ":", "3", "_", "0">>,
           <<"1", ":", "2", ":", "3", ":", "4">>,
           <<" ">> }

InitCodec ==
    /\ pc = "init"
    /\ time_str \in CodecTexts
    /\ seconds = << >>
    /\ raised = FALSE
    /\ IdleFormat
    /\ IdlePhase
    /\ IdleSchedule
    /\ IdleVdot
    /\ IdlePaces
    /\ IdleConfig
    /\ IdlePlan

\* calculator.py: every exception of the conversion is caught
TimeToSeconds ==
    /\ pc = "init"
    /\ seconds' = time_to_seconds(time_str)
    /\ raised' = FALSE
    /\ pc' = "time_to_seconds"
    /\ UNCHANGED <<time_str, duration, with_hours, phaseVars, scheduleVars, vdotVars, paceVars, configVars,
                   planVars>>

\* app.py: the function of the same name in the application script
AppTimeToSeconds ==
    /\ pc = "init"
    /\ seconds' = app_time_to_seconds(time_str).value
    /\ raised' = app_time_to_seconds(time_str).raised
    /\ pc' = "app_time_to_seconds"
    /\ UNCHANGED <<time_str, duration, with_hours, phaseVars, scheduleVars, vdotVars, paceVars, configVars,
                   planVars>>

NextCodec == TimeToSeconds \/ AppTimeToSeconds

SpecCodec == InitCodec /\ [][NextCodec]_vars

(***************************************************************************)
(* calculator.py: seconds_to_time and the formatting of integers.          *)
(***************************************************************************)
\* f"{n}" for an integer n
RECURSIVE DecText(_)
DecText(n) == IF n < 0 THEN <<"-">> \o DecText(-n)
              ELSE IF n < 10 THEN <<Digits[n + 1]>>
              ELSE DecText(n \div 10) \o <<Digits[(n % 10) + 1]>>

\* f"{n:02d}": at least two characters, padded with a zero
Pad2(n) == IF 0 <= n /\ n < 10 THEN <<"0">> \o DecText(n) ELSE DecText(n)

NotAvailable == <<"N", "/", "A">>

\* lines 54-61 for the number num / den
SecondsText(num, den, include_hours) ==
    LET hours == FloorDiv(num, 3600 * den)
        minutes == FloorDiv(Mod(num, 3600 * den), 60 * den)
        secs == FloorDiv(Mod(num, 60 * den), den)
    IN  IF include_hours \/ hours > 0
        THEN DecText(hours) \o <<":">> \o Pad2(minutes) \o <<":">> \o Pad2(secs)
        ELSE DecText(minutes) \o <<":">> \o Pad2(secs)

\* variant: the fields are not padded
seconds_to_time_unpadded(secs, include_hours) ==
    IF secs = << >> THEN NotAvailable
    ELSE LET hours == FloorDiv(secs[1], 3600)
             minutes == FloorDiv(Mod(secs[1], 3600), 60)
             sec == Mod(secs[1], 60)
         IN  IF include_hours \/ hours > 0
             THEN DecText(hours) \o <<":">> \o DecText(minutes) \o <<":">> \o DecText(sec)
             ELSE DecText(minutes) \o <<":">> \o DecText(sec)

\* variant: the minutes field counts all the minutes, the hours included
seconds_to_time_total_minutes(secs, include_hours) ==
    IF secs = << >> THEN NotAvailable
    ELSE LET hours == FloorDiv(secs[1], 3600)
             minutes == FloorDiv(secs[1], 60)
             sec == Mod(secs[1], 60)
         IN  IF include_hours \/ hours > 0
             THEN DecText(hours) \o <<":">> \o Pad2(minutes) \o <<":">> \o Pad2(sec)
             ELSE DecText(minutes) \o <<":">> \o Pad2(sec)

\* seconds_to_time(seconds, include_hours): seconds is None (<< >>), an
\* integer <<n>> or the number <<num, den>>
seconds_to_time(secs, include_hours) ==
    IF secs = << >> THEN NotAvailable
    ELSE SecondsText(secs[1], IF Len(secs) = 2 THEN secs[2] ELSE 1, include_hours)

\* round(x) of the number num / den: to the nearest integer, a tie to the
\* even one (a tie is a number k + 0.5, which a float holds exactly)
RoundHalfEven(num, den) ==
    IF Mod(2 * num, 2 * den) = den
    THEN (IF FloorDiv(num, den) % 2 = 0 THEN FloorDiv(num, den) ELSE FloorDiv(num, den) + 1)
    ELSE FloorDiv(2 * num + den, 2 * den)

\* app.py lines 197-205 for the rounded integer
AppSecondsText(rounded, include_hours) ==
    IF include_hours \/ rounded >= 3600
    THEN DecText(FloorDiv(rounded, 3600)) \o <<":">>
         \o Pad2(FloorDiv(Mod(rounded, 3600), 60)) \o <<":">> \o Pad2(Mod(rounded, 60))
    ELSE DecText(FloorDiv(rounded, 60)) \o <<":">> \o Pad2(Mod(rounded, 60))

\* app.py: seconds_to_time of the application script
app_seconds_to_time(secs, include_hours) ==
    IF secs = << >> THEN NotAvailable
    ELSE AppSecondsText(RoundHalfEven(secs[1], IF Len(secs) = 2 THEN secs[2] ELSE 1),
                        include_hours)

\* the durations formatted: None, whole seconds and tenths of a second
Durations ==
    {<< >>}
    \cup {<<n>> : n \in (0..MaxSeconds) \cup {3599, 3600, 3661, 7200, 12600, 35999, 36000}}
    \cup {<<k, 10>> : k \in (0..MaxTenths) \cup {35994, 35995, 35996, 36005}}

InitFormat ==
    /\ pc = "init"
    /\ duration \in Durations
    /\ with_hours \in BOOLEAN
    /\ time_str = << >>
    /\ seconds = << >>
    /\ raised = FALSE
    /\ IdlePhase
    /\ IdleSchedule
    /\ IdleVdot
    /\ IdlePaces
    /\ IdleConfig
    /\ IdlePlan

SecondsToTime ==
    /\ pc = "init"
    /\ time_str' = seconds_to_time(duration, with_hours)
    /\ pc' = "seconds_to_time"
    /\ UNCHANGED <<seconds, raised, duration, with_hours, phaseVars, scheduleVars, vdotVars, paceVars, configVars,
                   planVars>>

AppSecondsToTime ==
    /\ pc = "init"
    /\ time_str' = app_seconds_to_time(duration, with_hours)
    /\ pc' = "app_seconds_to_time"
    /\ UNCHANGED <<seconds, raised, duration, with_hours, phaseVars, scheduleVars, vdotVars, paceVars, configVars,
                   planVars>>

\* the text that seconds_to_time returned is handed to time_to_seconds
ParseFormatted ==
    /\ pc = "seconds_to_time"
    /\ seconds' = time_to_seconds(time_str)
    /\ raised' = FALSE
    /\ pc' = "round_trip"
    /\ UNCHANGED <<time_str, duration, with_hours, phaseVars, scheduleVars, vdotVars, paceVars, configVars,
                   planVars>>

NextFormat == SecondsToTime \/ AppSecondsToTime \/ ParseFormatted

SpecFormat == InitFormat /\ [][NextFormat]_vars

(***************************************************************************)
(* calculator.py: calculate_vdot_from_time(df_vdot, distance,              *)
(* time_seconds).  The table is a sequence of rows, each a record with the *)
(* integer column VDOT and text columns.  The result is a record: vdot is  *)
(* << >> for None and <<centi>> for a score, log tells which               *)
(* calculation_log was written, raised tells that the call ended with an   *)
(* exception instead of a result.  The Japanese category names are written *)
(* in Latin letters.                                                       *)
(***************************************************************************)
distance_mapping ==
    [d \in {"5km", "5000m", "10km", "10000m", "ha-fu", "ha-fumarason", "half",
            "furu", "furumarason", "marathon", "marason"} |->
        IF d \in {"5km", "5000m"} THEN "5000m"
        ELSE IF d \in {"10km", "10000m"} THEN "10000m"
        ELSE IF d \in {"ha-fu", "ha-fumarason", "half"} THEN "HalfMarathon"
        ELSE "Marathon"]

\* df_vdot.columns
Columns(df) == IF df = << >> THEN {} ELSE DOMAIN df[1]

\* lines 107-113: the (vdot, time_sec) pairs of the rows whose time parses to
\* a non-zero number of seconds, in table order
RECURSIVE VdotTimes(_, _)
VdotTimes(df, col) ==
    IF df = << >> THEN << >>
    ELSE LET time_sec == time_to_seconds(df[1][col])
             rest == VdotTimes(Tail(df), col)
         IN  IF time_sec # << >> /\ time_sec[1] # 0
             THEN <<[vdot |-> df[1].VDOT, time_sec |-> time_sec[1]]>> \o rest
             ELSE rest

\* line 116: list.sort(key = time, reverse = True) is stable: pairs with equal
\* times keep their order
RECURSIVE SortSlowestFirst(_)
SortSlowestFirst(vt) ==
    IF vt = << >> THEN << >>
    ELSE LET sorted == SortSlowestFirst(SubSeq(vt, 1, Len(vt) - 1))
             x == vt[Len(vt)]
             \* x goes behind every pair that is at least as slow
             k == Cardinality({i \in 1..Len(sorted) : sorted[i].time_sec >= x.time_sec})
         IN  SubSeq(sorted, 1, k) \o <<x>> \o SubSeq(sorted, k + 1, Len(sorted))

Raised == [vdot |-> << >>, log |-> "", raised |-> TRUE]

\* lines 119-131: the position in vdot_times of lower_vdot: the first pair
\* whose time is <= time_seconds and, when there is none, the last pair,
\* vdot_times[-1]
LowerIndex(vdot_times, time_seconds) ==
    LET found == {i \in 1..Len(vdot_times) : vdot_times[i].time_sec <= time_seconds}
    IN  IF found = {} THEN Len(vdot_times)
        ELSE CHOOSE i \in found : \A j \in found : i <= j

\* variant: the interpolation fraction is measured from the faster row
InterpolateVdotReversed(vdot_low, time_low, vdot_high, time_high, time_seconds, tieUp) ==
    IF time_low = time_high THEN Raised
    ELSE LET den0 == time_low - time_high
             num0 == vdot_low * den0 + (vdot_high - vdot_low) * (time_seconds - time_high)
         IN  [vdot |-> <<Round(100 * (IF den0 < 0 THEN -num0 ELSE num0), Abs(den0), tieUp)>>,
              log |-> "interpolated", raised |-> FALSE]

\* variant: the score is cut to two decimals instead of rounded
InterpolateVdotTruncated(vdot_low, time_low, vdot_high, time_high, time_seconds, tieUp) ==
    IF time_low = time_high THEN Raised
    ELSE LET den0 == time_low - time_high
             num0 == vdot_low * den0 + (vdot_high - vdot_low) * (time_low - time_seconds)
         IN  [vdot |-> <<FloorDiv(100 * (IF den0 < 0 THEN -num0 ELSE num0), Abs(den0))>>,
              log |-> "interpolated", raised |-> FALSE]

\* lines 145-171: round(vdot_low + (vdot_high - vdot_low) * ratio, 2) with
\* ratio = (time_low - time_seconds) / (time_low - time_high), as the
\* fraction num0 / den0 with the sign of the denominator made positive
InterpolateVdot(vdot_low, time_low, vdot_high, time_high, time_seconds, tieUp) ==
    \* lines 148-149 leave ratio unbound, and the calculation_log of line 167
    \* reads it: UnboundLocalError
    IF time_low = time_high THEN Raised
    ELSE LET den0 == time_low - time_high
             num0 == vdot_low * den0 + (vdot_high - vdot_low) * (time_low - time_seconds)
         IN  [vdot |-> <<Round(100 * (IF den0 < 0 THEN -num0 ELSE num0), Abs(den0), tieUp)>>,
              log |-> "interpolated", raised |-> FALSE]

\* lines 139-143: low is the pair with the smaller VDOT
OrderPairs(lower_vdot, upper_vdot, time_seconds, tieUp) ==
    IF upper_vdot.vdot > lower_vdot.vdot
    THEN InterpolateVdot(lower_vdot.vdot, lower_vdot.time_sec,
                         upper_vdot.vdot, upper_vdot.time_sec, time_seconds, tieUp)
    ELSE InterpolateVdot(upper_vdot.vdot, upper_vdot.time_sec,
                         lower_vdot.vdot, lower_vdot.time_sec, time_seconds, tieUp)

\* lines 119-143: lower_vdot is the pair at i0 and upper_vdot the pair before
\* it (vdot_times[-2] when no pair was found); there is no upper_vdot when
\* i0 is the first position
SelectPairs(vdot_times, i0, time_seconds, tieUp) ==
    \* vdot_times[-1] of an empty list raises IndexError
    IF vdot_times = << >> THEN Raised
    ELSE IF i0 = 1
    THEN [vdot |-> <<100 * vdot_times[1].vdot>>, log |-> "nearest", raised |-> FALSE]
    ELSE OrderPairs(vdot_times[i0], vdot_times[i0 - 1], time_seconds, tieUp)

\* lines 116-171 on the list of pairs
FromVdotTimes(vdot_times, time_seconds, tieUp) ==
    SelectPairs(vdot_times, LowerIndex(vdot_times, time_seconds), time_seconds, tieUp)

\* variant: the name is looked up in the table as it is given
ColNameUnmapped(dist) == dist

\* col_name = distance_mapping.get(distance, distance)
ColName(dist) == IF dist \in DOMAIN distance_mapping THEN distance_mapping[dist] ELSE dist

calculate_vdot_from_time(df, dist, time_seconds, tieUp) ==
    IF ColName(dist) \notin Columns(df)
    THEN [vdot |-> << >>, log |-> "error", raised |-> FALSE]
    ELSE FromVdotTimes(SortSlowestFirst(VdotTimes(df, ColName(dist))), time_seconds, tieUp)

(***************************************************************************)
(* calculator.py: calculate_marathon_time_from_vdot(df_vdot, vdot), vdot   *)
(* in milli.  The interpolated time is a float; when its exact value is a  *)
(* whole number of seconds that the table rows do not give directly, the   *)
(* float may lie just below it: below tells whether it does.               *)
(***************************************************************************)
RowsWith(df, v) == SelectSeq(df, LAMBDA r : r.VDOT = v)

\* lines 210-214: f"{hours}:{minutes:02d}:{seconds:02d}" of the time
\* num / den seconds, each part cut to an integer
FormatCut(num, den) ==
    DecText(FloorDiv(num, 3600 * den)) \o <<":">>
    \o Pad2(FloorDiv(Mod(num, 3600 * den), 60 * den)) \o <<":">>
    \o Pad2(FloorDiv(Mod(num, 60 * den), den))

\* variant: the seconds are rounded to the nearest second, not cut off
InterpolateTimeRounded(time_low_sec, time_high_sec, frac, below) ==
    seconds_to_time(<<Round(time_low_sec * 1000 + (time_high_sec - time_low_sec) * frac,
                            1000, TRUE)>>, TRUE)

\* lines 207-214: time_sec = time_low_sec + (time_high_sec - time_low_sec) *
\* decimal_ratio with decimal_ratio = frac / 1000, as a fraction over 1000
InterpolateTime(time_low_sec, time_high_sec, frac, below) ==
    LET exact == time_low_sec * 1000 + (time_high_sec - time_low_sec) * frac
    IN  FormatCut(IF below /\ frac # 0 /\ exact % 1000 = 0 THEN exact - 1 ELSE exact, 1000)

\* lines 194-214 on the two rows and their parsed times
FromRows(time_low_str, time_low_sec, row_high, time_high_sec, frac, below) ==
    IF row_high = << >> \/ time_low_sec = << >>
    THEN (IF time_low_sec # << >> /\ time_low_sec[1] # 0 THEN time_low_str
          ELSE NotAvailable)
    ELSE IF time_high_sec = << >> THEN time_low_str
    ELSE InterpolateTime(time_low_sec[1], time_high_sec[1], frac, below)

\* lines 188-205: the rows at int(vdot) and one above it
LookUpRows(row_low, row_high, frac, below) ==
    IF row_low = << >> THEN NotAvailable
    ELSE FromRows(row_low[1].Marathon, time_to_seconds(row_low[1].Marathon), row_high,
                  IF row_high = << >> THEN << >>
                  ELSE time_to_seconds(row_high[1].Marathon),
                  frac, below)

calculate_marathon_time_from_vdot(df, v, below) ==
    \* int(vdot) cuts the decimals off
    LookUpRows(RowsWith(df, v \div 1000), RowsWith(df, (v \div 1000) + 1),
               v - 1000 * (v \div 1000), below)

(***************************************************************************)
(* The tables tried: 2..MaxRows rows with consecutive VDOT values up to    *)
(* 85, in ascending order of VDOT, the Marathon time of VDOT 85 being      *)
(* 2:01:10 and each lower row slower than the next by one of the gaps (a   *)
(* gap of 0 gives two rows with equal times).                              *)
(***************************************************************************)
GapSet == {0, 8, 74}

RECURSIVE SumFrom(_, _)
SumFrom(gaps, i) == IF i > Len(gaps) THEN 0 ELSE gaps[i] + SumFrom(gaps, i + 1)

TableOf(gaps) ==
    [i \in 1..(Len(gaps) + 1) |->
        [VDOT |-> 85 - (Len(gaps) + 1) + i,
         Marathon |-> seconds_to_time(<<7270 + SumFrom(gaps, i)>>, TRUE)]]

Tables == {TableOf(gaps) : gaps \in UNION {[1..(n - 1) -> GapSet] : n \in 2..MaxRows}}

SlowestTime(df) == time_to_seconds(df[1].Marathon)[1]
FastestTime(df) == time_to_seconds(df[Len(df)].Marathon)[1]

\* the durations asked for one column: from faster than the fastest row to
\* slower than the slowest
QueriesOf(df, col) ==
    (time_to_seconds(df[Len(df)][col])[1] - QueryMargin)
        ..(time_to_seconds(df[1][col])[1] + QueryMargin)

\* the durations asked: those of every time column of the table
Queries(df) == UNION {QueriesOf(df, col) : col \in Columns(df) \ {"VDOT"}}

InitVdot ==
    /\ pc = "init"
    /\ df_vdot \in Tables
    /\ distance = "furumarason"
    /\ calls = << >>
    /\ vdot = 0
    /\ marathon_time = << >>
    /\ IdlePhase
    /\ IdleSchedule
    /\ IdleCodec
    /\ IdlePaces
    /\ IdleConfig
    /\ IdlePlan

\* a call of calculate_vdot_from_time; the function has no state, so a
\* second call with the same arguments gives the same result.  The calls
\* are recorded in the order of their durations.
CalculateVdotFromTime ==
    /\ pc \in {"init", "calculate_vdot_from_time"}
    /\ Len(calls) < 2
    /\ \E time_seconds \in Queries(df_vdot), tieUp \in BOOLEAN :
          LET result == calculate_vdot_from_time(df_vdot, distance, time_seconds, tieUp)
          IN  /\ \A k \in 1..Len(calls) :
                    /\ calls[k].time_seconds <= time_seconds
                    /\ calls[k].time_seconds = time_seconds => calls[k].result = result
              /\ calls' = Append(calls, [time_seconds |-> time_seconds, result |-> result])
    /\ pc' = "calculate_vdot_from_time"
    /\ UNCHANGED <<df_vdot, distance, vdot, marathon_time,
                   phaseVars, scheduleVars, codecVars, paceVars, configVars,
                   planVars>>

NextVdot == CalculateVdotFromTime

SpecVdot == InitVdot /\ [][NextVdot]_vars

(***************************************************************************)
(* The category names: tables with the columns of two or three distances,  *)
(* asked under every key of distance_mapping, under the column names and   *)
(* under names the mapping does not know.                                  *)
(***************************************************************************)
Distances ==
    DOMAIN distance_mapping
    \cup {"Marathon", "HalfMarathon", "100km", "Half", "Marason", "5000M"}

AliasRow(v, cols, pace) ==
    [c \in cols \cup {"VDOT"} |->
        IF c = "VDOT" THEN v
        ELSE IF c = "Marathon" THEN seconds_to_time(<<7270 + 8 * (85 - v)>>, TRUE)
        ELSE IF c = "HalfMarathon" THEN seconds_to_time(<<3480 + 8 * (85 - v)>>, TRUE)
        ELSE seconds_to_time(<<pace + 8 * (85 - v)>>, FALSE)]

AliasTables ==
    { <<AliasRow(84, cols, 757), AliasRow(85, cols, 757)>> :
        cols \in {{"5000m", "Marathon"}, {"5000m", "HalfMarathon", "Marathon"},
                  {"10000m", "HalfMarathon"}} }

InitAlias ==
    /\ pc = "init"
    /\ df_vdot \in AliasTables
    /\ distance \in Distances
    /\ calls = << >>
    /\ vdot = 0
    /\ marathon_time = << >>
    /\ IdlePhase
    /\ IdleSchedule
    /\ IdleCodec
    /\ IdlePaces
    /\ IdleConfig
    /\ IdlePlan

NextAlias == CalculateVdotFromTime

SpecAlias == InitAlias /\ [][NextAlias]_vars

(***************************************************************************)
(* The round trip: a score is turned into a marathon time, the time text   *)
(* is parsed, and the seconds are turned back into a score.                *)
(***************************************************************************)
\* the scores tried, in milli: from half a point below the lowest row to half
\* a point above the highest row
ScoresOf(df) == (1000 * df[1].VDOT - 500)..(1000 * df[Len(df)].VDOT + 500)

InitRoundTrip ==
    /\ pc = "init"
    /\ df_vdot \in Tables
    /\ distance = "Marathon"
    /\ calls = << >>
    /\ vdot \in ScoresOf(df_vdot)
    /\ marathon_time = << >>
    /\ IdlePhase
    /\ IdleSchedule
    /\ IdleCodec
    /\ IdlePaces
    /\ IdleConfig
    /\ IdlePlan

CalculateMarathonTimeFromVdot ==
    /\ pc = "init"
    /\ \E below \in BOOLEAN :
          marathon_time' = calculate_marathon_time_from_vdot(df_vdot, vdot, below)
    /\ pc' = "calculate_marathon_time_from_vdot"
    /\ UNCHANGED <<df_vdot, distance, calls, vdot, phaseVars, scheduleVars, codecVars, paceVars, configVars,
                   planVars>>

ParseMarathonTime ==
    /\ pc = "calculate_marathon_time_from_vdot"
    /\ time_str' = marathon_time
    /\ seconds' = time_to_seconds(marathon_time)
    /\ pc' = "time_to_seconds"
    /\ UNCHANGED <<raised, duration, with_hours, vdotVars, phaseVars, scheduleVars, paceVars, configVars,
                   planVars>>

CalculateVdotFromParsed ==
    /\ pc = "time_to_seconds"
    /\ seconds # << >>
    /\ \E tieUp \in BOOLEAN :
          calls' = <<[time_seconds |-> seconds[1],
                      result |-> calculate_vdot_from_time(df_vdot, distance,
                                                          seconds[1], tieUp)]>>
    /\ pc' = "calculate_vdot_from_time"
    /\ UNCHANGED <<df_vdot, distance, vdot, marathon_time,
                   phaseVars, scheduleVars, codecVars, paceVars, configVars,
                   planVars>>

NextRoundTrip ==
    \/ CalculateMarathonTimeFromVdot
    \/ ParseMarathonTime
    \/ CalculateVdotFromParsed

SpecRoundTrip == InitRoundTrip /\ [][NextRoundTrip]_vars

(***************************************************************************)
(* paces.py: calculate_training_paces(df_pace, vdot), vdot in milli.  The  *)
(* result is a record: paces maps a pace type to its entry, ratio is the   *)
(* decimal_ratio used (in thousandths), log tells which calculation_log    *)
(* was written, raised tells that the call ended with an exception.  ups   *)
(* is the set of pace types whose rounding tie goes up: the blended pace   *)
(* is a float, and whether a value half way between two seconds is held    *)
(* exactly depends on the operands.                                        *)
(***************************************************************************)
pace_types == <<"E_min", "E_max", "M", "T", "I", "R">>
PaceTypeSet == {pace_types[i] : i \in 1..Len(pace_types)}

\* col.strip().lower() == "vdot", for the column names tried
StripLowerIsVdot(col) == col \in {"VDot", "VDOT", "VDot ", "vdot"}

\* lines 31-39: the name of the index column
VdotCol(df) ==
    IF "VDot" \in Columns(df) THEN "VDot"
    ELSE IF "VDOT" \in Columns(df) THEN "VDOT"
    ELSE IF \E col \in Columns(df) : StripLowerIsVdot(col)
    THEN CHOOSE col \in Columns(df) : StripLowerIsVdot(col)
    ELSE "VDOT"

\* df_pace[df_pace[vdot_col] == v]
PaceRowsWith(df, col, v) == SelectSeq(df, LAMBDA r : r[col] = v)

PaceRaised == [paces |-> << >>, ratio |-> 0, log |-> "", success |-> FALSE, raised |-> TRUE]

\* lines 78-81: the entry of one pace type
PaceEntry(pace_sec) ==
    [seconds |-> pace_sec, display |-> seconds_to_time(<<pace_sec>>, FALSE)]

\* variant: the blend runs from the higher row down
BlendPaceFromHigh(pace_low_sec, pace_high_sec, frac, tieUp) ==
    Round(1000 * pace_high_sec + (pace_low_sec - pace_high_sec) * frac, 1000, tieUp)

\* lines 75-76: round(pace_low_sec + (pace_high_sec - pace_low_sec) * decimal_ratio)
BlendPace(pace_low_sec, pace_high_sec, frac, tieUp) ==
    Round(1000 * pace_low_sec + (pace_high_sec - pace_low_sec) * frac, 1000, tieUp)

\* lines 62-73: the pace types that are columns of the table and whose cells
\* parse in both rows
UsableTypes(df, row_low, row_high) ==
    {t \in PaceTypeSet \cap Columns(df) :
        time_to_seconds(row_low[t]) # << >> /\ time_to_seconds(row_high[t]) # << >>}

\* lines 62-81
BlendedPaces(usable, row_low, row_high, frac, ups) ==
    [t \in usable |->
        PaceEntry(BlendPace(time_to_seconds(row_low[t])[1],
                            time_to_seconds(row_high[t])[1], frac, t \in ups))]

\* lines 89-94: the entry "E" pairs the two easy paces; the wave dash of the
\* display is written "~"
WithEasyRange(blended) ==
    IF {"E_min", "E_max"} \subseteq DOMAIN blended
    THEN [t \in DOMAIN blended \cup {"E"} |->
            IF t = "E"
            THEN [display |-> blended["E_min"].display \o <<"~">>
                              \o blended["E_max"].display,
                  min |-> blended["E_min"], max |-> blended["E_max"]]
            ELSE blended[t]]
    ELSE blended

\* lines 59-107 on the two rows
BlendRows(df, row_low, row_high, frac, ups) ==
    \* lines 99-102 read all six pace columns of both rows: KeyError when
    \* the table lacks one
    IF ~(PaceTypeSet \subseteq Columns(df)) THEN PaceRaised
    ELSE [paces |-> WithEasyRange(BlendedPaces(UsableTypes(df, row_low, row_high),
                                               row_low, row_high, frac, ups)),
          ratio |-> frac, log |-> "ok", success |-> TRUE, raised |-> FALSE]

\* variant: the first row is taken without looking whether there is one
FromPaceRowsUnchecked(df, row_low, row_high, frac, ups) ==
    IF row_low = << >> THEN PaceRaised
    ELSE IF row_high = << >> THEN BlendRows(df, row_low[1], row_low[1], 0, ups)
    ELSE BlendRows(df, row_low[1], row_high[1], frac, ups)

\* lines 48-57
FromPaceRows(df, row_low, row_high, frac, ups) ==
    IF row_low = << >>
    THEN [paces |-> << >>, ratio |-> frac, log |-> "error", success |-> FALSE,
          raised |-> FALSE]
    ELSE IF row_high = << >> THEN BlendRows(df, row_low[1], row_low[1], 0, ups)
    ELSE BlendRows(df, row_low[1], row_high[1], frac, ups)

calculate_training_paces(df, v, ups) ==
    \* df_pace[vdot_col] of a column the table does not have: KeyError
    IF VdotCol(df) \notin Columns(df) THEN PaceRaised
    ELSE FromPaceRows(df, PaceRowsWith(df, VdotCol(df), v \div 1000),
                      PaceRowsWith(df, VdotCol(df), (v \div 1000) + 1),
                      v - 1000 * (v \div 1000), ups)

\* the pace tables tried: rows for the consecutive indices from 84 up, the
\* lowest row fixed and each higher row faster by k times a step; the index
\* column under one of its names; a table with an unreadable cell in one
\* row; a table without the column R
PaceAt(t, v, k) ==
    IF t = "E_min" THEN 226 - 3 * k * (v - 84)
    ELSE IF t = "E_max" THEN 252 - 3 * k * (v - 84)
    ELSE IF t = "M" THEN 174 - 1 * k * (v - 84)
    ELSE IF t = "T" THEN 167 - 3 * k * (v - 84)
    ELSE IF t = "I" THEN 154 - 1 * k * (v - 84)
    ELSE 143 - 1 * k * (v - 84)

PaceRow(v, k, name, cols, blank) ==
    [c \in cols \cup {name} |->
        IF c = name THEN v
        ELSE IF <<v, c>> = blank THEN <<"n", "a", "n">>
        ELSE seconds_to_time(<<PaceAt(c, v, k)>>, FALSE)]

PaceTable(n, k, name, cols, blank) ==
    [i \in 1..n |-> PaceRow(83 + i, k, name, cols, blank)]

PaceTables ==
    {PaceTable(n, k, name, PaceTypeSet, <<0, "">>) :
        n \in 2..MaxPaceRows, k \in {1, 2}, name \in {"VDot", "VDOT", "VDot "}}
    \cup {PaceTable(2, 1, "VDot", PaceTypeSet, blank) :
             blank \in {<<84, "T">>, <<85, "R">>}}
    \cup {PaceTable(2, 1, "VDot", PaceTypeSet \ {"R"}, <<0, "">>)}

PaceScores ==
    {1000 * k + f : k \in 83..87, f \in (0..MaxPaceFrac) \cup {250, 500, 750, 999}}

InitPaces ==
    /\ pc = "init"
    /\ df_pace \in PaceTables
    /\ pace_vdot \in PaceScores
    /\ pace_result = << >>
    /\ df_vdot = TableOf(<<74>>)
    /\ vdot = pace_vdot
    /\ distance = ""
    /\ calls = << >>
    /\ marathon_time = << >>
    /\ IdlePhase
    /\ IdleSchedule
    /\ IdleCodec
    /\ IdleConfig
    /\ IdlePlan

CalculateTrainingPaces ==
    /\ pc = "init"
    /\ \E ups \in SUBSET PaceTypeSet :
          pace_result' = calculate_training_paces(df_pace, pace_vdot, ups)
    /\ pc' = "calculate_training_paces"
    /\ UNCHANGED <<df_pace, pace_vdot, phaseVars, scheduleVars, codecVars, vdotVars,
                   configVars, planVars>>

NextPaces == CalculateTrainingPaces \/ CalculateMarathonTimeFromVdot

SpecPaces == InitPaces /\ [][NextPaces]_vars

(***************************************************************************)
(* training.py: get_training_start_date(race_date, min_weeks).             *)
(* A datetime is a number of slots since a Monday 00:00; a day has         *)
(* SlotsPerDay slots, so a datetime carries a time of day.  timedelta.days *)
(* and // both round toward minus infinity.                                *)
(***************************************************************************)
MIN_TRAINING_WEEKS == 12

\* datetime.weekday(): 0 is Monday
weekday(dt) == Mod(FloorDiv(dt, SlotsPerDay), 7)

\* timedelta(days = d)
timedelta_days(d) == d * SlotsPerDay

\* variant: snaps backward to the Monday of the week of the date
get_training_start_date_snap_back(race, now, mw) ==
    LET weeks == IF mw = << >> THEN MIN_TRAINING_WEEKS ELSE mw[1]
        weeks_until_race == FloorDiv(FloorDiv(race - now, SlotsPerDay), 7)
        start0 == IF weeks_until_race < weeks
                  THEN race - timedelta_days(7 * weeks)
                  ELSE now
    IN  start0 - timedelta_days(weekday(start0))

\* variant: never goes back from the race date, always starts from today
get_training_start_date_from_today(race, now, mw) ==
    LET d0 == Mod(7 - weekday(now), 7)
    IN  now + timedelta_days(d0)

\* variant: the % 7 is missing, so a Monday moves on by a whole week
get_training_start_date_no_mod(race, now, mw) ==
    LET weeks == IF mw = << >> THEN MIN_TRAINING_WEEKS ELSE mw[1]
        weeks_until_race == FloorDiv(FloorDiv(race - now, SlotsPerDay), 7)
        start0 == IF weeks_until_race < weeks
                  THEN race - timedelta_days(7 * weeks)
                  ELSE now
    IN  start0 + timedelta_days(7 - weekday(start0))

\* variant: the date is not moved to a Monday
get_training_start_date_unsnapped(race, now, mw) ==
    LET weeks == IF mw = << >> THEN MIN_TRAINING_WEEKS ELSE mw[1]
        weeks_until_race == FloorDiv(FloorDiv(race - now, SlotsPerDay), 7)
    IN  IF weeks_until_race < weeks
        THEN race - timedelta_days(7 * weeks)
        ELSE now

get_training_start_date(race, now, mw) ==
    LET \* if min_weeks is None: min_weeks = MIN_TRAINING_WEEKS
        weeks == IF mw = << >> THEN MIN_TRAINING_WEEKS ELSE mw[1]
        days_until_race == FloorDiv(race - now, SlotsPerDay)
        weeks_until_race == FloorDiv(days_until_race, 7)
        start0 == IF weeks_until_race < weeks
                  THEN race - timedelta_days(7 * weeks)
                  ELSE now
        d0 == Mod(7 - weekday(start0), 7)
        days_until_monday == IF d0 = 0 /\ weekday(start0) # 0 THEN 7 ELSE d0
        start1 == start0 + timedelta_days(days_until_monday)
    IN  IF weekday(start1) # 0
        THEN start1 - timedelta_days(weekday(start1))
        ELSE start1

InitSchedule ==
    /\ pc = "init"
    /\ today \in 0..(timedelta_days(7) - 1)
    /\ race_date \in today..timedelta_days(7 * MaxWeeksAhead)
    /\ min_weeks \in {<< >>} \cup {<<w>> : w \in 1..MaxMinWeeks}
    /\ start_date = 0
    /\ IdlePhase
    /\ IdleCodec
    /\ IdleVdot
    /\ IdlePaces
    /\ IdleConfig
    /\ IdlePlan

GetTrainingStartDate ==
    /\ pc = "init"
    /\ start_date' = get_training_start_date(race_date, today, min_weeks)
    /\ pc' = "get_training_start_date"
    /\ UNCHANGED <<race_date, today, min_weeks, phaseVars, codecVars, vdotVars, paceVars, configVars,
                   planVars>>

NextSchedule == GetTrainingStartDate

SpecSchedule == InitSchedule /\ [][NextSchedule]_vars

PhaseScores == (49995..(49995 + MaxScoreSpan)) \cup {50500, 53000, 53500}
PhaseCounts == (-1)..MaxPhases

InitPhase ==
    /\ pc = "init"
    /\ current_vdot \in PhaseScores
    /\ target_vdot \in PhaseScores
    /\ num_phases \in PhaseCounts
    /\ phase_vdots = << >>
    /\ IdleSchedule
    /\ IdleCodec
    /\ IdleVdot
    /\ IdlePaces
    /\ IdleConfig
    /\ IdlePlan

CalculatePhaseVdots ==
    /\ pc = "init"
    /\ \E ups \in SUBSET (0..(MaxPhases - 1)) :
          phase_vdots' = calculate_phase_vdots(current_vdot, target_vdot, num_phases, ups)
    /\ pc' = "calculate_phase_vdots"
    /\ UNCHANGED <<current_vdot, target_vdot, num_phases, scheduleVars, codecVars, vdotVars, paceVars, configVars,
                   planVars>>

NextPhase == CalculatePhaseVdots

SpecPhase == InitPhase /\ [][NextPhase]_vars

(***************************************************************************)
(* config.py: get_max_vdot_diff(current_vdot, training_weeks).  The score  *)
(* is in milli; tolerances and the returned value are in tenths, the       *)
(* scale cap 2.5 is in tenths too.                                         *)
(***************************************************************************)
BASE_TRAINING_WEEKS == 12
VDOT_DIFF_SCALE_CAP == 25

\* the tiers in the order of the dict: lower <= current_vdot < upper
VDOT_DIFF_BY_LEVEL ==
    << [lower |-> 0, upper |-> 40, diff |-> 40],
       [lower |-> 40, upper |-> 50, diff |-> 30],
       [lower |-> 50, upper |-> 55, diff |-> 25],
       [lower |-> 55, upper |-> 60, diff |-> 20],
       [lower |-> 60, upper |-> 100, diff |-> 15] >>

\* lines 90-94: the diff of the first tier that holds the score, 2.0 when
\* none does
BaseDiff(cur) ==
    LET hits == {i \in 1..Len(VDOT_DIFF_BY_LEVEL) :
                    /\ 1000 * VDOT_DIFF_BY_LEVEL[i].lower <= cur
                    /\ cur < 1000 * VDOT_DIFF_BY_LEVEL[i].upper}
    IN  IF hits = {} THEN 20
        ELSE VDOT_DIFF_BY_LEVEL[CHOOSE i \in hits : \A j \in hits : i <= j].diff

\* the integer nearest to sqrt(p / q), for p >= 0 and q > 0, a tie to the
\* even one: n is the largest integer with n - 1/2 <= sqrt(p / q)
RoundSqrt(p, q, top) ==
    LET n == CHOOSE k \in 0..top :
                 /\ (k = 0 \/ (2 * k - 1) * (2 * k - 1) * q <= 4 * p)
                 /\ (k = top \/ (2 * k + 1) * (2 * k + 1) * q > 4 * p)
    IN  IF n > 0 /\ (2 * n - 1) * (2 * n - 1) * q = 4 * p /\ n % 2 = 1 THEN n - 1 ELSE n

\* variant: the scale is the square root of baseline / weeks
get_max_vdot_diff_inverted(cur, weeks) ==
    IF weeks = 0 \/ 100 * BASE_TRAINING_WEEKS
                     >= VDOT_DIFF_SCALE_CAP * VDOT_DIFF_SCALE_CAP * weeks
    THEN RoundHalfEven(BaseDiff(cur) * VDOT_DIFF_SCALE_CAP, 10)
    ELSE RoundSqrt(BaseDiff(cur) * BaseDiff(cur) * BASE_TRAINING_WEEKS, weeks,
                   3 * BaseDiff(cur))

\* lines 97-99: round(base_diff * min(sqrt(weeks / 12), 2.5), 1), for
\* weeks >= 0.  The cap acts when weeks / 12 >= 2.5 * 2.5; a product that is
\* half way between two tenths is held exactly by the float.
get_max_vdot_diff(cur, weeks) ==
    IF 100 * weeks >= VDOT_DIFF_SCALE_CAP * VDOT_DIFF_SCALE_CAP * BASE_TRAINING_WEEKS
    THEN RoundHalfEven(BaseDiff(cur) * VDOT_DIFF_SCALE_CAP, 10)
    ELSE RoundSqrt(BaseDiff(cur) * BaseDiff(cur) * weeks, BASE_TRAINING_WEEKS,
                   3 * BaseDiff(cur))

\* the scores tried: inside every tier, at the tier borders and above the
\* last tier
ConfigScores ==
    {-1000, 0, 30000, 39999, 40000, 44999, 45000, 45500, 49999, 50000, 52000,
     54999, 55000, 57000, 59999, 60000, 65000, 99999, 100000, 120000}

\* lines 102-110: the tiers in the order of the dict, each with (minimum
\* weekly km, minimum training days, minimum quality sessions)
MIN_TRAINING_REQUIREMENTS ==
    << [lower |-> 0, upper |-> 40, requirements |-> <<40, 3, 1>>],
       [lower |-> 40, upper |-> 45, requirements |-> <<50, 4, 1>>],
       [lower |-> 45, upper |-> 50, requirements |-> <<60, 4, 2>>],
       [lower |-> 50, upper |-> 55, requirements |-> <<80, 5, 2>>],
       [lower |-> 55, upper |-> 60, requirements |-> <<100, 5, 2>>],
       [lower |-> 60, upper |-> 100, requirements |-> <<120, 6, 3>>] >>

\* the positions of the tiers with lower <= target_vdot < upper
TiersHolding(tgt) ==
    {i \in 1..Len(MIN_TRAINING_REQUIREMENTS) :
        /\ 1000 * MIN_TRAINING_REQUIREMENTS[i].lower <= tgt
        /\ tgt < 1000 * MIN_TRAINING_REQUIREMENTS[i].upper}

\* variant: a tier owns its upper border instead of its lower one
get_min_requirements_upper_inclusive(tgt) ==
    LET hits == {i \in 1..Len(MIN_TRAINING_REQUIREMENTS) :
                    /\ 1000 * MIN_TRAINING_REQUIREMENTS[i].lower < tgt
                    /\ tgt <= 1000 * MIN_TRAINING_REQUIREMENTS[i].upper}
    IN  IF hits = {} THEN <<60, 4, 2>>
        ELSE MIN_TRAINING_REQUIREMENTS[CHOOSE i \in hits : \A j \in hits : i <= j].requirements

\* variant: the tuples are handed out in the reverse order of the tiers
get_min_requirements_reversed(tgt) ==
    LET hits == TiersHolding(tgt)
        n == Len(MIN_TRAINING_REQUIREMENTS)
    IN  IF hits = {} THEN <<60, 4, 2>>
        ELSE MIN_TRAINING_REQUIREMENTS[n + 1 - (CHOOSE i \in hits : \A j \in hits : i <= j)].requirements

\* lines 112-117: the tuple of the first tier that holds the score,
\* (60, 4, 2) when none does
get_min_requirements(tgt) ==
    LET hits == TiersHolding(tgt)
    IN  IF hits = {} THEN <<60, 4, 2>>
        ELSE MIN_TRAINING_REQUIREMENTS[CHOOSE i \in hits : \A j \in hits : i <= j].requirements

(***************************************************************************)
(* config.py: validate_training_conditions.  A supplied value is None, an  *)
(* int or a text (the form hands the weekly distance over as the text the  *)
(* runner typed).                                                          *)
(***************************************************************************)
NoneValue == [kind |-> "None", number |-> 0, text |-> << >>]
IntValue(n) == [kind |-> "int", number |-> n, text |-> << >>]
StrValue(t) == [kind |-> "str", number |-> 0, text |-> t]

\* the truth value of x in "int(x) if x else 0"
Truthy(x) ==
    \/ x.kind = "int" /\ x.number # 0
    \/ x.kind = "str" /\ x.text # << >>

\* lines 136-138: int(x) raises ValueError for a text that is not an integer
ToIntRaises(x) == Truthy(x) /\ x.kind = "str" /\ ~IntOk(x.text)

\* lines 136-138: int(x) if x else 0
ToInt(x) ==
    IF ~Truthy(x) THEN 0
    ELSE IF x.kind = "int" THEN x.number
    ELSE IntVal(x.text)

\* lines 140-147: one warning when the value is below the minimum
Shortfall(quantity, current, required) ==
    IF current < required
    THEN << [quantity |-> quantity, current |-> current, required |-> required] >>
    ELSE << >>

\* the call ended with the ValueError of int()
ValidationRaised ==
    [raised |-> TRUE, is_valid |-> FALSE, warnings |-> << >>,
     min_distance |-> 0, min_days |-> 0, min_point |-> 0]

\* variant: the checks stop at the first shortfall
ValidationReportFirstOnly(mins, dist, days, points) ==
    LET all == Shortfall("weekly_distance", dist, mins[1])
                   \o Shortfall("training_days", days, mins[2])
                   \o Shortfall("point_training_days", points, mins[3])
        warnings == IF all = << >> THEN all ELSE <<Head(all)>>
    IN  [raised |-> FALSE, is_valid |-> Len(warnings) = 0, warnings |-> warnings,
         min_distance |-> mins[1], min_days |-> mins[2], min_point |-> mins[3]]

\* lines 140-155: the three independent checks and the returned dict
ValidationReport(mins, dist, days, points) ==
    LET warnings == Shortfall("weekly_distance", dist, mins[1])
                        \o Shortfall("training_days", days, mins[2])
                        \o Shortfall("point_training_days", points, mins[3])
    IN  [raised |-> FALSE, is_valid |-> Len(warnings) = 0, warnings |-> warnings,
         min_distance |-> mins[1], min_days |-> mins[2], min_point |-> mins[3]]

\* lines 119-155
validate_training_conditions(tgt, wd, td, pd) ==
    IF ToIntRaises(wd) \/ ToIntRaises(td) \/ ToIntRaises(pd)
    THEN ValidationRaised
    ELSE ValidationReport(get_min_requirements(tgt), ToInt(wd), ToInt(td), ToInt(pd))

InitConfig ==
    /\ pc = "init"
    /\ current_vdot \in ConfigScores
    /\ target_vdot \in ConfigScores
    /\ training_weeks \in 0..MaxCycleWeeks
    /\ max_vdot_diff = 0
    /\ min_requirements = << >>
    /\ IdleValidation
    /\ num_phases = 0 /\ phase_vdots = << >>
    /\ IdleSchedule
    /\ IdleCodec
    /\ IdleVdot
    /\ IdlePaces
    /\ IdlePlan

GetMaxVdotDiff ==
    /\ pc = "init"
    /\ max_vdot_diff' = get_max_vdot_diff(current_vdot, training_weeks)
    /\ pc' = "get_max_vdot_diff"
    /\ UNCHANGED <<training_weeks, min_requirements, weekly_distance, training_days,
                   point_training_days, validation,
                   phaseVars, scheduleVars, codecVars, vdotVars, paceVars,
                   planVars>>

GetMinRequirements ==
    /\ pc = "init"
    /\ min_requirements' = get_min_requirements(target_vdot)
    /\ pc' = "get_min_requirements"
    /\ UNCHANGED <<training_weeks, max_vdot_diff, weekly_distance, training_days,
                   point_training_days, validation,
                   phaseVars, scheduleVars, codecVars, vdotVars, paceVars,
                   planVars>>

NextConfig == GetMaxVdotDiff \/ GetMinRequirements

SpecConfig == InitConfig /\ [][NextConfig]_vars

\* the weekly distances tried: around every minimum of the tiers
DistancesTried == {0, 39, 40, 49, 50, 59, 60, 79, 80, 99, 100, 119, 120, 130}

\* the texts tried for the weekly distance: empty, integers, a range, a
\* word, a blank
DistanceTexts ==
    {<< >>, <<"5", "0">>, <<"1", "2", "0">>, <<" ", "6", "0">>,
     <<"5", "0", "-", "6", "0">>, <<"a">>, <<" ">>}

InitRequirements ==
    /\ pc = "init"
    /\ target_vdot \in ConfigScores
    /\ weekly_distance \in {NoneValue} \cup {IntValue(n) : n \in DistancesTried}
                               \cup {StrValue(t) : t \in DistanceTexts}
    /\ training_days \in {NoneValue} \cup {IntValue(n) : n \in 0..MaxTrainingDays}
    /\ point_training_days \in {NoneValue} \cup {IntValue(n) : n \in 0..MaxPointDays}
    /\ validation = << >>
    /\ training_weeks = 0 /\ max_vdot_diff = 0 /\ min_requirements = << >>
    /\ current_vdot = 0 /\ num_phases = 0 /\ phase_vdots = << >>
    /\ IdleSchedule
    /\ IdleCodec
    /\ IdleVdot
    /\ IdlePaces
    /\ IdlePlan

ValidateTrainingConditions ==
    /\ pc = "init"
    /\ validation' = validate_training_conditions(target_vdot, weekly_distance,
                                                  training_days, point_training_days)
    /\ pc' = "validate_training_conditions"
    /\ UNCHANGED <<training_weeks, max_vdot_diff, min_requirements, weekly_distance,
                   training_days, point_training_days,
                   phaseVars, scheduleVars, codecVars, vdotVars, paceVars,
                   planVars>>

NextRequirements == ValidateTrainingConditions

SpecRequirements == InitRequirements /\ [][NextRequirements]_vars

(***************************************************************************)
(* gemini_client.py: the phase table of create_training_prompt, and        *)
(* components.py: render_phase_table.  A row of the table is the first and *)
(* the last week written in its period column and its VDOT, in centi.      *)
(***************************************************************************)
NUM_PHASES == 4

PhaseRow(first, last, v) == [first |-> first, last |-> last, vdot |-> v]

\* the four rows for a given weeks_per_phase and list of phase VDOTs
PhaseRows(weeks_per_phase, weeks, vdots) ==
    << PhaseRow(1, weeks_per_phase, vdots[1]),
       PhaseRow(weeks_per_phase + 1, weeks_per_phase * 2, vdots[2]),
       PhaseRow(weeks_per_phase * 2 + 1, weeks_per_phase * 3, vdots[3]),
       PhaseRow(weeks_per_phase * 3 + 1, weeks, vdots[4]) >>

\* variant: phase 4 ends after weeks_per_phase weeks like the others
create_training_prompt_even_phases(cur, tgt, weeks, ups) ==
    LET weeks_per_phase == FloorDiv(weeks, NUM_PHASES)
    IN  PhaseRows(weeks_per_phase, weeks_per_phase * 4,
                  calculate_phase_vdots(cur, tgt, NUM_PHASES, ups))

\* gemini_client.py lines 198-203 and 274-280
create_training_prompt(cur, tgt, weeks, ups) ==
    LET num_phases_ == NUM_PHASES
        weeks_per_phase == FloorDiv(weeks, num_phases_)
    IN  PhaseRows(weeks_per_phase, weeks,
                  calculate_phase_vdots(cur, tgt, num_phases_, ups))

\* components.py lines 143-178
render_phase_table(cur, tgt, weeks, ups) ==
    LET weeks_per_phase == FloorDiv(weeks, NUM_PHASES)
    IN  PhaseRows(weeks_per_phase, weeks,
                  calculate_phase_vdots(cur, tgt, NUM_PHASES, ups))

\* the scores of the plans tried
PlanScores == {50000, 51500, 53000}

InitPlan ==
    /\ pc = "init"
    /\ current_vdot \in PlanScores
    /\ target_vdot \in PlanScores
    /\ training_weeks \in 0..MaxCycleWeeks
    /\ prompt_phases = << >>
    /\ table_phases = << >>
    /\ num_phases = 0 /\ phase_vdots = << >>
    /\ max_vdot_diff = 0 /\ min_requirements = << >>
    /\ IdleValidation
    /\ IdleSchedule
    /\ IdleCodec
    /\ IdleVdot
    /\ IdlePaces

CreateTrainingPrompt ==
    /\ prompt_phases = << >>
    /\ prompt_phases' = create_training_prompt(current_vdot, target_vdot,
                                               training_weeks, {})
    /\ pc' = "create_training_prompt"
    /\ UNCHANGED <<table_phases, phaseVars, scheduleVars, codecVars, vdotVars,
                   paceVars, configVars>>

RenderPhaseTable ==
    /\ table_phases = << >>
    /\ table_phases' = render_phase_table(current_vdot, target_vdot,
                                          training_weeks, {})
    /\ pc' = "render_phase_table"
    /\ UNCHANGED <<prompt_phases, phaseVars, scheduleVars, codecVars, vdotVars,
                   paceVars, configVars>>

NextPlan == CreateTrainingPrompt \/ RenderPhaseTable

SpecPlan == InitPlan /\ [][NextPlan]_vars

(***************************************************************************)
(* Claims about calculate_phase_vdots.                                     *)
(***************************************************************************)
PhaseDone == pc = "calculate_phase_vdots"

\* a score in milli that has at most two decimals
TwoDecimals(milli) == milli % 10 = 0

\* a returned centi value is the given milli value rounded to two decimals
IsRounded2(centi, milli) ==
    /\ Abs(10 * centi - milli) <= 5
    /\ TwoDecimals(milli) => 10 * centi = milli

\* C4 (as stated): for every phase count n >= 1 and all scores c and t the
\* list has exactly n elements, its first element equals c exactly and its
\* last element equals t exactly.
C4_EndpointsExact ==
    (PhaseDone /\ num_phases >= 1) =>
        /\ Len(phase_vdots) = num_phases
        /\ 10 * phase_vdots[1] = current_vdot
        /\ 10 * phase_vdots[num_phases] = target_vdot

\* C4 (amended): for every n >= 1 the list has exactly n elements and its
\* first element is c rounded to two decimals; for n >= 2 its last element is
\* t rounded to two decimals, while for n = 1 the only element is c and not t.
\* The elements equal c and t exactly when these have at most two decimals.
C4_EndpointsRounded ==
    (PhaseDone /\ num_phases >= 1) =>
        /\ Len(phase_vdots) = num_phases
        /\ IsRounded2(phase_vdots[1], current_vdot)
        /\ num_phases >= 2 => IsRounded2(phase_vdots[num_phases], target_vdot)

C4_Witness ==
    /\ PhaseDone
    /\ num_phases = 4 /\ current_vdot = 50500 /\ target_vdot = 53500
    /\ phase_vdots[1] = 5050 /\ phase_vdots[4] = 5350

\* C5: for n >= 2 element i (0-based) is c + i*(t - c)/(n - 1) rounded to two
\* decimals (within half a hundredth of it), the list runs monotonically from
\* c to t, and with c = t every element is the same value, c itself once c
\* has at most two decimals.
C5_LinearSpacing ==
    (PhaseDone /\ num_phases >= 2) =>
        /\ \A i \in 0..(num_phases - 1) :
              2 * Abs(10 * (num_phases - 1) * phase_vdots[i + 1]
                      - (current_vdot * (num_phases - 1)
                         + i * (target_vdot - current_vdot)))
                 <= 10 * (num_phases - 1)
        /\ \A i \in 1..(num_phases - 1) :
              /\ current_vdot <= target_vdot => phase_vdots[i] <= phase_vdots[i + 1]
              /\ current_vdot >= target_vdot => phase_vdots[i] >= phase_vdots[i + 1]
        /\ current_vdot = target_vdot =>
              \A i \in 1..num_phases : IsRounded2(phase_vdots[i], current_vdot)
                                       /\ phase_vdots[i] = phase_vdots[1]

C5_Witness ==
    /\ PhaseDone
    /\ num_phases = 4 /\ current_vdot = 50000 /\ target_vdot = 53000
    /\ phase_vdots = <<5000, 5100, 5200, 5300>>

ScheduleDone == pc = "get_training_start_date"

EffectiveMinWeeks == IF min_weeks = << >> THEN MIN_TRAINING_WEEKS ELSE min_weeks[1]

\* whole weeks remaining until the event: days remaining integer-divided by 7
WeeksRemaining == FloorDiv(FloorDiv(race_date - today, SlotsPerDay), 7)

InsufficientLead == WeeksRemaining < EffectiveMinWeeks

\* the event date minus min_weeks weeks
Anchor == race_date - timedelta_days(7 * EffectiveMinWeeks)

\* dt is a whole number k of days after base, lo <= k <= hi
DaysAfter(dt, base, lo, hi) ==
    \E k \in lo..hi : dt = base + timedelta_days(k)

C9_NextMondayFromNow ==
    (ScheduleDone /\ ~InsufficientLead) =>
        /\ weekday(start_date) = 0
        /\ DaysAfter(start_date, today, 0, 6)
        /\ weekday(today) = 0 => start_date = today

C9_Witness ==
    /\ ScheduleDone /\ ~InsufficientLead
    /\ weekday(today) = 3
    /\ start_date = today + timedelta_days(4)

(***************************************************************************)
(* Claims about time_to_seconds.                                           *)
(***************************************************************************)
CodecDone == pc = "time_to_seconds"

IsColon(c) == c \in {":", FullWidthColon}

\* positions a..b of the text hold a non-empty run of digits
DigitRun(t, a, b) == a <= b /\ \A i \in a..b : t[i] \in DigitSet

\* the text with the ASCII colons at the positions in S made full-width
Widen(t, S) == [i \in 1..Len(t) |-> IF i \in S /\ t[i] = ":" THEN FullWidthColon ELSE t[i]]

\* C10: a text H:MM:SS gives H*3600 + MM*60 + SS, a text M:SS gives
\* M*60 + SS, a bare integer text gives that integer, with either kind of
\* colon; and replacing any of the ASCII colons of a text by full-width
\* colons leaves the result unchanged.
C10_ParsesClockTexts ==
    CodecDone =>
        LET t == time_str
            n == Len(time_str)
        IN  /\ DigitRun(t, 1, n) => seconds = <<DecVal(t)>>
            /\ \A i \in 1..n :
                  (IsColon(t[i]) /\ DigitRun(t, 1, i - 1) /\ DigitRun(t, i + 1, n))
                     => seconds = <<DecVal(SubSeq(t, 1, i - 1)) * 60
                                    + DecVal(SubSeq(t, i + 1, n))>>
            /\ \A i, j \in 1..n :
                  (/\ i < j /\ IsColon(t[i]) /\ IsColon(t[j])
                   /\ DigitRun(t, 1, i - 1) /\ DigitRun(t, i + 1, j - 1)
                   /\ DigitRun(t, j + 1, n))
                     => seconds = <<DecVal(SubSeq(t, 1, i - 1)) * 3600
                                    + DecVal(SubSeq(t, i + 1, j - 1)) * 60
                                    + DecVal(SubSeq(t, j + 1, n))>>
            /\ \A S \in SUBSET {i \in 1..n : t[i] = ":"} :
                  time_to_seconds(Widen(t, S)) = seconds

C10_Witness ==
    /\ CodecDone
    /\ time_str = <<"5", ":", "0", "5", FullWidthColon, "5", "0">>
    /\ seconds = <<18350>>

\* a part that is no number: it has no digit, or a character that is none of
\* a digit, white space, a sign and an underscore
NonNumericPart(p) ==
    \/ \A i \in 1..Len(p) : p[i] \notin DigitSet
    \/ \E i \in 1..Len(p) : p[i] \notin DigitSet \cup {" ", "+", "-", "_"}

\* the parts of a text between its colons of either kind
ColonParts(t) == Split(ReplaceColon(t))

Unparseable(t) ==
    \/ t = << >>
    \/ Len(ColonParts(t)) > 3
    \/ \E i \in 1..Len(ColonParts(t)) : NonNumericPart(ColonParts(t)[i])

AnyCodecDone == pc \in {"time_to_seconds", "app_time_to_seconds"}

\* C11: for every text that is empty or null, has a part between colons
\* that is no number, or has more than three parts, time_to_seconds (of
\* calculator.py and of app.py) returns None and does not raise.
C11_UnparseableIsNone ==
    (AnyCodecDone /\ Unparseable(time_str)) => (seconds = << >> /\ ~raised)

(***************************************************************************)
(* Claims about seconds_to_time.                                           *)
(***************************************************************************)
WholeSeconds == Len(duration) = 1

\* C12: for every whole number s >= 0 of seconds, s = 0 included, the text
\* seconds_to_time(s, include_hours = True) is parsed back by
\* time_to_seconds to s.
C12_CodecRoundTrip ==
    (pc = "round_trip" /\ WholeSeconds /\ with_hours) => seconds = <<duration[1]>>

C12_Witness ==
    /\ pc = "round_trip" /\ with_hours
    /\ duration = <<3661>>
    /\ time_str = <<"1", ":", "0", "1", ":", "0", "1">>
    /\ seconds = <<3661>>

\* the text is a run of digits of the given length (any length when 0)
Field(t, len) ==
    /\ t # << >>
    /\ \A i \in 1..Len(t) : t[i] \in DigitSet
    /\ len > 0 => Len(t) = len

\* C13: for a whole number s of seconds the text is H:MM:SS exactly when
\* include_hours is set or s >= 3600 and M:SS otherwise, MM and SS being
\* two digits below 60 and the fields adding up to s (0 gives "0:00"); for
\* None the text is "N/A".
C13_ClockText ==
    (pc = "seconds_to_time" /\ Len(duration) < 2) =>
        IF duration = << >> THEN time_str = NotAvailable
        ELSE LET parts == Split(time_str)
             IN  IF with_hours \/ duration[1] >= 3600
                 THEN /\ Len(parts) = 3
                      /\ Field(parts[1], 0) /\ Field(parts[2], 2) /\ Field(parts[3], 2)
                      /\ DecVal(parts[2]) < 60 /\ DecVal(parts[3]) < 60
                      /\ 3600 * DecVal(parts[1]) + 60 * DecVal(parts[2])
                         + DecVal(parts[3]) = duration[1]
                 ELSE /\ Len(parts) = 2
                      /\ Field(parts[1], 0) /\ Field(parts[2], 2)
                      /\ DecVal(parts[2]) < 60
                      /\ 60 * DecVal(parts[1]) + DecVal(parts[2]) = duration[1]
                      /\ duration[1] = 0 => time_str = <<"0", ":", "0", "0">>

C13_Witness ==
    /\ pc = "seconds_to_time" /\ ~with_hours
    /\ duration = <<3600>>
    /\ time_str = <<"1", ":", "0", "0", ":", "0", "0">>

\* the whole number of seconds nearest to num / den, which is no tie
Nearest(num, den) == FloorDiv(2 * num + den, 2 * den)
IsTie(num, den) == Mod(2 * num, 2 * den) = den

\* C14: a duration with a fraction of a second is formatted (by
\* seconds_to_time of calculator.py and of app.py) as the nearest whole
\* number of seconds is: 59.6 gives "1:00".
C14_RoundsToNearest ==
    (/\ pc \in {"seconds_to_time", "app_seconds_to_time"}
     /\ Len(duration) = 2 /\ ~IsTie(duration[1], duration[2]))
        => time_str = SecondsText(Nearest(duration[1], duration[2]), 1, with_hours)

(***************************************************************************)
(* Claims about calculate_vdot_from_time and                               *)
(* calculate_marathon_time_from_vdot.                                      *)
(***************************************************************************)
\* the call returned a score
Scored(call) == ~call.result.raised /\ call.result.vdot # << >>

LowestIndex(df) == df[1].VDOT
HighestIndex(df) == df[Len(df)].VDOT

\* C1: for every table of at least two rows and every query duration, slower
\* than the slowest row and faster than the fastest row included, the score
\* returned lies between the lowest and the highest VDOT of the table.
C1_ScoreWithinTable ==
    \A k \in 1..Len(calls) :
        (Len(df_vdot) >= 2 /\ Scored(calls[k])) =>
            /\ 100 * LowestIndex(df_vdot) <= calls[k].result.vdot[1]
            /\ calls[k].result.vdot[1] <= 100 * HighestIndex(df_vdot)

\* C2: for a fixed table and category the score does not increase with the
\* duration: of two calls that return a score, the one with the longer
\* duration returns the lower or an equal score, out of range on either side
\* included.
C2_NonIncreasing ==
    \A i, j \in 1..Len(calls) :
        (/\ Scored(calls[i]) /\ Scored(calls[j])
         /\ calls[i].time_seconds <= calls[j].time_seconds)
            => calls[i].result.vdot[1] >= calls[j].result.vdot[1]

C2_Witness ==
    /\ Len(calls) = 2
    /\ Scored(calls[1]) /\ Scored(calls[2])
    /\ calls[1].time_seconds < FastestTime(df_vdot)
    /\ calls[2].time_seconds > SlowestTime(df_vdot)
    /\ calls[1].result.vdot[1] > calls[2].result.vdot[1]

\* the column a category name stands for
CanonicalOf(d) ==
    IF d \in {"5km", "5000m"} THEN "5000m"
    ELSE IF d \in {"10km", "10000m"} THEN "10000m"
    ELSE IF d \in {"ha-fu", "ha-fumarason", "half", "HalfMarathon"} THEN "HalfMarathon"
    ELSE IF d \in {"furu", "furumarason", "marathon", "marason", "Marathon"} THEN "Marathon"
    ELSE d

\* C15: every alias of a column gives what the column name itself gives for
\* the same table and duration; a category whose resolved column the table
\* does not have gives the error result (score None, error message) and no
\* exception.
C15_AliasesResolve ==
    \A k \in 1..Len(calls) :
        /\ calls[k].result \in
              {calculate_vdot_from_time(df_vdot, CanonicalOf(distance),
                                        calls[k].time_seconds, b) : b \in BOOLEAN}
        /\ CanonicalOf(distance) \notin Columns(df_vdot)
              => calls[k].result = [vdot |-> << >>, log |-> "error", raised |-> FALSE]
        /\ ~calls[k].result.raised

C15_Witness ==
    /\ Len(calls) = 2
    /\ distance = "marason"
    /\ calls[1].result.log = "interpolated"
    /\ "HalfMarathon" \notin Columns(df_vdot)

RoundTripDone == pc = "calculate_vdot_from_time" /\ vdot # 0 /\ Len(calls) = 1

\* the table has rows at the integer part of the score and one above it, and
\* the score lies strictly between them
BetweenAdjacentRows ==
    /\ vdot % 1000 # 0
    /\ RowsWith(df_vdot, vdot \div 1000) # << >>
    /\ RowsWith(df_vdot, (vdot \div 1000) + 1) # << >>

\* the seconds between the marathon times of the two rows around the score
RowGap ==
    time_to_seconds(RowsWith(df_vdot, vdot \div 1000)[1].Marathon)[1]
    - time_to_seconds(RowsWith(df_vdot, (vdot \div 1000) + 1)[1].Marathon)[1]

\* C3 (as stated): for every score strictly between two adjacent rows the
\* round trip returns a score within 0.01 of the original.
C3_RoundTripWithinHundredth ==
    (RoundTripDone /\ BetweenAdjacentRows) =>
        /\ Scored(calls[1])
        /\ Abs(10 * calls[1].result.vdot[1] - vdot) <= 10

\* C3 (amended): for every score s strictly between two adjacent rows whose
\* marathon times differ by D > 0 seconds, the round trip returns a score r
\* with s - 0.005 <= r <= s + 1/D + 0.005, because the time is cut to whole
\* seconds; r is within 0.01 of s when s has at most two decimals and D is at
\* least 67 seconds.
C3_RoundTripWithinOneSecond ==
    (RoundTripDone /\ BetweenAdjacentRows /\ RowGap > 0) =>
        /\ Scored(calls[1])
        /\ 10 * calls[1].result.vdot[1] >= vdot - 5
        /\ RowGap * (10 * calls[1].result.vdot[1] - vdot - 5) <= 1000
        /\ (vdot % 10 = 0 /\ RowGap >= 67)
              => Abs(10 * calls[1].result.vdot[1] - vdot) <= 10

C3_Witness ==
    /\ RoundTripDone /\ BetweenAdjacentRows
    /\ RowGap = 74
    /\ vdot = 84500
    /\ marathon_time = <<"2", ":", "0", "1", ":", "4", "7">>
    /\ calls[1].result.vdot = <<8450>>

(***************************************************************************)
(* Claims about calculate_training_paces and the missing rows.             *)
(***************************************************************************)
PacesDone == pc = "calculate_training_paces"

\* the index of a row of the pace table: its cell that is no pace
IndexOf(row) == row[CHOOSE c \in DOMAIN row : c \notin PaceTypeSet]

\* the rows of the pace table at an index
RowsAt(v) == {i \in 1..Len(df_pace) : IndexOf(df_pace[i]) = v}

FloorIndex == pace_vdot \div 1000

\* the table has the six pace columns and every cell of them parses
CompleteTable ==
    \A i \in 1..Len(df_pace) :
        /\ PaceTypeSet \subseteq DOMAIN df_pace[i]
        /\ \A t \in PaceTypeSet : time_to_seconds(df_pace[i][t]) # << >>

\* C16: when the table has no row at the integer part of the score,
\* calculate_marathon_time_from_vdot returns "N/A" and
\* calculate_training_paces returns success = False, the error log and no
\* paces; neither call ends with an exception.
C16_MissingFloorReported ==
    /\ (pc = "calculate_marathon_time_from_vdot" /\ RowsWith(df_vdot, vdot \div 1000) = << >>)
          => marathon_time = NotAvailable
    /\ (PacesDone /\ RowsAt(FloorIndex) = {})
          => /\ ~pace_result.raised
             /\ ~pace_result.success
             /\ pace_result.log = "error"
             /\ pace_result.paces = << >>

C16_Witness ==
    /\ PacesDone
    /\ pace_vdot = 83250
    /\ RowsAt(FloorIndex) = {}
    /\ pace_result.log = "error"

\* C17: for a score equal to the index of a row, every pace column whose
\* cell in that row parses is returned with that cell's seconds, with ratio
\* 0, whatever the next row holds (the table has the six pace columns).
C17_ExactRowUnblended ==
    (/\ PacesDone /\ pace_vdot % 1000 = 0
     /\ \A i \in 1..Len(df_pace) : PaceTypeSet \subseteq DOMAIN df_pace[i])
        => \A i \in RowsAt(FloorIndex) :
              /\ pace_result.success /\ ~pace_result.raised
              /\ pace_result.ratio = 0
              /\ \A t \in PaceTypeSet :
                    time_to_seconds(df_pace[i][t]) # << >>
                       => /\ t \in DOMAIN pace_result.paces
                          /\ pace_result.paces[t].seconds = time_to_seconds(df_pace[i][t])[1]

\* C18: for a score at or above the highest index of a complete table the
\* call succeeds with ratio 0 and returns the paces of the highest row.
C18_ClampsAtMaximum ==
    (/\ PacesDone /\ CompleteTable
     /\ pace_vdot >= 1000 * IndexOf(df_pace[Len(df_pace)]))
        => /\ pace_result.success /\ ~pace_result.raised
           /\ pace_result.ratio = 0
           /\ \A t \in PaceTypeSet :
                 /\ t \in DOMAIN pace_result.paces
                 /\ pace_result.paces[t].seconds
                    = time_to_seconds(df_pace[Len(df_pace)][t])[1]

(***************************************************************************)
(* Claims about get_max_vdot_diff.                                         *)
(***************************************************************************)
ConfigDone == pc = "get_max_vdot_diff"

\* the 12-week tolerance of the tier of a score, in tenths
TierBase(cur) ==
    IF 0 <= cur /\ cur < 40000 THEN 40
    ELSE IF 40000 <= cur /\ cur < 50000 THEN 30
    ELSE IF 50000 <= cur /\ cur < 55000 THEN 25
    ELSE IF 55000 <= cur /\ cur < 60000 THEN 20
    ELSE IF 60000 <= cur /\ cur < 100000 THEN 15
    ELSE 20

\* C19: for a fixed score the value does not decrease with the number of
\* weeks (no shorter cycle gives more), and for 12 weeks or more it is at
\* least the 12-week tolerance of the tier.
C19_MonotoneInWeeks ==
    ConfigDone =>
        /\ \A w \in 0..training_weeks :
              get_max_vdot_diff(current_vdot, w) <= max_vdot_diff
        /\ training_weeks >= 12 => max_vdot_diff >= TierBase(current_vdot)

C19_Witness ==
    /\ ConfigDone
    /\ current_vdot = 30000
    /\ training_weeks = 24
    /\ max_vdot_diff = 57

\* C20: the value never exceeds 2.5 times the 12-week tolerance of the
\* tier, the rounding to one decimal included.
C20_WithinCeiling ==
    ConfigDone => 10 * max_vdot_diff <= 25 * TierBase(current_vdot)

RequirementsDone == pc = "get_min_requirements"

\* the minimums of the tier of a target score
TierRequirements(tgt) ==
    IF 0 <= tgt /\ tgt < 40000 THEN <<40, 3, 1>>
    ELSE IF 40000 <= tgt /\ tgt < 45000 THEN <<50, 4, 1>>
    ELSE IF 45000 <= tgt /\ tgt < 50000 THEN <<60, 4, 2>>
    ELSE IF 50000 <= tgt /\ tgt < 55000 THEN <<80, 5, 2>>
    ELSE IF 55000 <= tgt /\ tgt < 60000 THEN <<100, 5, 2>>
    ELSE IF 60000 <= tgt /\ tgt < 100000 THEN <<120, 6, 3>>
    ELSE <<60, 4, 2>>

\* C21: both lookups own the lower border of a tier and not the upper one,
\* and answer for every score: at 12 weeks get_max_vdot_diff is the base of
\* the tier, get_min_requirements is the tuple of the tier, and a score
\* outside every tier gets 2.0 and (60, 4, 2).
C21_TiersOwnLowerBorder ==
    /\ ConfigDone /\ training_weeks = BASE_TRAINING_WEEKS =>
           max_vdot_diff = TierBase(current_vdot)
    /\ RequirementsDone => min_requirements = TierRequirements(target_vdot)

C21_Witness ==
    /\ RequirementsDone
    /\ target_vdot = 55000
    /\ min_requirements = <<100, 5, 2>>

LeqEach(lo, hi) == \A k \in 1..3 : lo[k] <= hi[k]

\* C22 as stated: for all target scores a <= b, every minimum of a is at
\* most the corresponding minimum of b.
C22_MonotoneEverywhere ==
    RequirementsDone =>
        \A b \in ConfigScores :
            target_vdot <= b => LeqEach(min_requirements, get_min_requirements(b))

\* C22 amended: the minimums do not decrease between two target scores
\* that both lie in a tier (0 <= a <= b < 100); a score outside every tier
\* gets (60, 4, 2), which is below the minimums of the tiers from 50 up.
C22_MonotoneWithinTiers ==
    RequirementsDone /\ 0 <= target_vdot /\ target_vdot < 100000 =>
        \A b \in ConfigScores :
            target_vdot <= b /\ b < 100000 =>
                LeqEach(min_requirements, get_min_requirements(b))

C22_Witness ==
    /\ RequirementsDone
    /\ target_vdot = 45500
    /\ min_requirements = <<60, 4, 2>>

ValidationDone == pc = "validate_training_conditions"

\* the number a supplied value stands for: zero for None and for a text
\* that is not an integer
Supplied(x) ==
    IF x.kind = "int" THEN x.number
    ELSE IF x.kind = "str" /\ IntOk(x.text) THEN IntVal(x.text)
    ELSE 0

WarningsAbout(quantity) ==
    {i \in 1..Len(validation.warnings) : validation.warnings[i].quantity = quantity}

OneWarningIffBelow(quantity, supplied, required) ==
    Cardinality(WarningsAbout(quantity)) = IF supplied < required THEN 1 ELSE 0

\* C23: a returned report holds exactly one warning for each of the three
\* quantities that is below its minimum, is_valid is true exactly when
\* there is no warning, and the minimums are those of the tier of the
\* target.
C23_EveryShortfallReported ==
    ValidationDone /\ ~validation.raised =>
        /\ OneWarningIffBelow("weekly_distance", Supplied(weekly_distance),
                              TierRequirements(target_vdot)[1])
        /\ OneWarningIffBelow("training_days", Supplied(training_days),
                              TierRequirements(target_vdot)[2])
        /\ OneWarningIffBelow("point_training_days", Supplied(point_training_days),
                              TierRequirements(target_vdot)[3])
        /\ validation.is_valid <=> (validation.warnings = << >>)
        /\ <<validation.min_distance, validation.min_days, validation.min_point>>
               = TierRequirements(target_vdot)

C23_Witness ==
    /\ ValidationDone
    /\ target_vdot = 50000
    /\ weekly_distance = IntValue(60)
    /\ training_days = IntValue(4)
    /\ point_training_days = IntValue(2)
    /\ Len(validation.warnings) = 2
    /\ ~validation.is_valid

NonNumeric(x) == x.kind = "None" \/ (x.kind = "str" /\ ~IntOk(x.text))

\* C24: a weekly distance that is missing or not a number counts as zero:
\* the call returns a report, and the report warns about a distance of 0.
C24_NonNumericIsZero ==
    ValidationDone =>
        /\ ~validation.raised
        /\ NonNumeric(weekly_distance) =>
               \E i \in WarningsAbout("weekly_distance") :
                   validation.warnings[i].current = 0

\* C25: a phase count of zero or less is refused: the call does not hand
\* back a list (an empty one included).
C25_NonPositiveCountFails ==
    (PhaseDone /\ num_phases <= 0) => phase_vdots \notin Seq(Int)

\* C26: the start date depends on the race date and min_weeks only: the
\* same call made at any other time of the week gives the same date.
C26_NoHiddenInput ==
    ScheduleDone =>
        \A now \in 0..(timedelta_days(7) - 1) :
            now <= race_date =>
                get_training_start_date(race_date, now, min_weeks) = start_date

\* C27: whatever the race date, the time of the call and min_weeks, the
\* returned date is a Monday.
C27_StartsOnMonday ==
    ScheduleDone => weekday(start_date) = 0

C27_Witness ==
    /\ ScheduleDone
    /\ weekday(today) = 2
    /\ weekday(race_date) = 4
    /\ start_date # today
    /\ weekday(start_date) = 0

\* the seconds a clock text "H:MM:SS" stands for
ClockSeconds(t) ==
    3600 * DigitVal(t[1])
        + 60 * (10 * DigitVal(t[3]) + DigitVal(t[4]))
        + 10 * DigitVal(t[6]) + DigitVal(t[7])

\* the rows of the table as (index, duration in seconds), in table order
RowPairs(df) ==
    [i \in 1..Len(df) |-> [vdot |-> df[i].VDOT, time_sec |-> ClockSeconds(df[i].Marathon)]]

SlowerRows(rows, q) == {i \in 1..Len(rows) : rows[i].time_sec > q}
FasterRows(rows, q) == {i \in 1..Len(rows) : rows[i].time_sec <= q}

\* the row next to q on the slow side; of rows that share that duration the
\* one with the highest index
SlowerRow(rows, q) ==
    CHOOSE i \in SlowerRows(rows, q) : \A j \in SlowerRows(rows, q) :
        \/ rows[i].time_sec < rows[j].time_sec
        \/ rows[i].time_sec = rows[j].time_sec /\ rows[i].vdot >= rows[j].vdot

\* the row next to q on the fast side (q itself included); of rows that
\* share that duration the one with the lowest index
FasterRow(rows, q) ==
    CHOOSE i \in FasterRows(rows, q) : \A j \in FasterRows(rows, q) :
        \/ rows[i].time_sec > rows[j].time_sec
        \/ rows[i].time_sec = rows[j].time_sec /\ rows[i].vdot <= rows[j].vdot

\* r, in hundredths, is slower_index + (faster_index - slower_index)
\* * (t_slower - q) / (t_slower - t_faster) rounded to two decimals, and
\* lies between the two indices
IsBlendOf(r, slower, faster, q) ==
    LET den == slower.time_sec - faster.time_sec
        num == slower.vdot * den
                   + (faster.vdot - slower.vdot) * (slower.time_sec - q)
    IN  /\ 2 * Abs(r * den - 100 * num) <= den
        /\ 100 * slower.vdot <= r /\ r <= 100 * faster.vdot
        /\ q = faster.time_sec => r = 100 * faster.vdot

InterpolatesBetween(rows, call) ==
    /\ (SlowerRows(rows, call.time_seconds) # {}
        /\ FasterRows(rows, call.time_seconds) # {}) =>
           /\ Scored(call)
           /\ IsBlendOf(call.result.vdot[1],
                        rows[SlowerRow(rows, call.time_seconds)],
                        rows[FasterRow(rows, call.time_seconds)],
                        call.time_seconds)
    /\ (\E i \in 1..Len(rows) : rows[i].time_sec = call.time_seconds) =>
           /\ Scored(call)
           /\ call.result.vdot[1] = 100 * rows[FasterRow(rows, call.time_seconds)].vdot

\* C28: a query between two rows adjacent in duration order
\* (t_faster <= q < t_slower) returns the index of the slower row plus the
\* fraction (t_slower - q) / (t_slower - t_faster) of the step to the
\* index of the faster row, rounded to two decimals; the result lies
\* between the two indices, and a query equal to the duration of a row
\* returns the index of that row (of rows that share the duration, the
\* lowest index).  Every call is the last call of the state it leads to.
C28_InterpolatesBetweenRows ==
    calls # << >> => InterpolatesBetween(RowPairs(df_vdot), calls[Len(calls)])

C28_Witness ==
    /\ df_vdot = TableOf(<<8>>)
    /\ \E k \in 1..Len(calls) :
          /\ calls[k].time_seconds = 7272
          /\ calls[k].result.vdot = <<8475>>
    /\ \E k \in 1..Len(calls) :
          /\ calls[k].time_seconds = 7278
          /\ calls[k].result.vdot = <<8400>>

\* the two pairs the function selects as the bracket of q: the first pair,
\* slowest first, that is not slower than q (the last pair when there is
\* none) and the pair before it
BracketOf(df, q) ==
    LET vdot_times == SortSlowestFirst(VdotTimes(df, "Marathon"))
        i0 == LowerIndex(vdot_times, q)
    IN  IF i0 > 1 THEN <<vdot_times[i0 - 1], vdot_times[i0]>> ELSE << >>

LowerOf(a, b) == IF a <= b THEN a ELSE b

\* a bracket of equal durations gives the lower index and no error
LowerIndexReturned(bracket, result) ==
    (bracket # << >> /\ bracket[1].time_sec = bracket[2].time_sec) =>
        /\ ~result.raised
        /\ result.vdot = <<100 * LowerOf(bracket[1].vdot, bracket[2].vdot)>>

\* C29: when the two rows selected as the bracket have equal durations,
\* the call ends without an error and returns the lower of their indices.
C29_EqualDurationsLowerIndex ==
    \A k \in 1..Len(calls) :
        LowerIndexReturned(BracketOf(df_vdot, calls[k].time_seconds), calls[k].result)

(***************************************************************************)
(* Claims about the phase table.                                           *)
(***************************************************************************)
WeeksOf(row) == row.first..row.last

\* the four periods are non-empty, follow one another without a gap or an
\* overlap, and cover the weeks 1..weeks
PartitionsWeeks(rows, weeks) ==
    /\ Len(rows) = 4
    /\ \A i \in 1..4 : WeeksOf(rows[i]) # {}
    /\ \A i, j \in 1..4 : i # j => WeeksOf(rows[i]) \cap WeeksOf(rows[j]) = {}
    /\ rows[1].first = 1
    /\ \A i \in 1..3 : rows[i + 1].first = rows[i].last + 1
    /\ UNION {WeeksOf(rows[i]) : i \in 1..4} = 1..weeks

Periods(rows) == [i \in 1..Len(rows) |-> <<rows[i].first, rows[i].last>>]

\* C30: for 12 training weeks or more the four periods of the prompt, and
\* those of the phase table on screen, are non-empty, disjoint, contiguous
\* and cover exactly the weeks 1..training_weeks, and the two are the same.
C30_PhasesPartitionWeeks ==
    training_weeks >= MIN_TRAINING_WEEKS =>
        /\ prompt_phases # << >> => PartitionsWeeks(prompt_phases, training_weeks)
        /\ table_phases # << >> => PartitionsWeeks(table_phases, training_weeks)
        /\ (prompt_phases # << >> /\ table_phases # << >>) =>
               Periods(prompt_phases) = Periods(table_phases)

C30_Witness ==
    /\ training_weeks = 14
    /\ prompt_phases # << >> /\ table_phases # << >>
    /\ Periods(prompt_phases) = << <<1, 3>>, <<4, 6>>, <<7, 9>>, <<10, 14>> >>
    /\ Periods(table_phases) = Periods(prompt_phases)

====
